---- MODULE Spec2Model ----
(***************************************************************************)
(* Model of src/src/clock.rs: VectorClock<HostType>, a HashMap from host   *)
(* to u64 count, with new, incremented, temporal_relation (superseded_by), *)
(* merge_with, to_vec and from_vec.                                        *)
(*                                                                         *)
(* A clock is a function whose DOMAIN is the set of keys of `entries`.     *)
(* The derived PartialEq of the struct is equality of the maps, which is   *)
(* equality of these functions: {A: 0} and {} are different clocks.        *)
(*                                                                         *)
(* Spec      drives the public API on two bound clocks a and b.            *)
(* SpecProto drives the usage protocol of several hosts exchanging events. *)
(***************************************************************************)
EXTENDS Integers, Sequences, FiniteSets

VARIABLES a, b, ret, local, known, events

vars == <<a, b, ret, local, known, events>>

-----------------------------------------------------------------------------
(* Bounds *)

\* Bit width standing for the 64 bits of the u64 counts.
Width == 2

\* Longest vector handed to from_vec.
MaxLen == 2

\* Number of events emitted in a run of the protocol.
MaxEvents == 4

-----------------------------------------------------------------------------
(* Domains *)

Hosts == {"A", "B"}

RECURSIVE Pow2(_)
Pow2(n) == IF n = 0 THEN 1 ELSE 2 * Pow2(n - 1)

\* u64: counts are 0 .. 2^Width - 1.
Modulus == Pow2(Width)
MaxCount == Modulus - 1

\* Counts offered to from_vec: zero, one and the largest count.
VecCounts == {0, 1, MaxCount}

VecPairs == Hosts \X VecCounts

VecInputs == UNION {[1..n -> VecPairs] : n \in 0..MaxLen}

-----------------------------------------------------------------------------
(* enum TemporalRelation *)

Equal == "Equal"
Caused == "Caused"
EffectOf == "EffectOf"
Concurrent == "Concurrent"

-----------------------------------------------------------------------------
(* VectorClock *)

\* VectorClock::new: an empty map.
New == [h \in {} |-> 0]

\* HashMap::insert: set the value of key h.
Insert(entries, h, n) ==
    [x \in (DOMAIN entries) \cup {h} |-> IF x = h THEN n ELSE entries[x]]

\* entries.get(host).unwrap_or(&0)
GetOr0(entries, h) == IF h \in DOMAIN entries THEN entries[h] ELSE 0

\* `v + 1` on u64 overflows when v is the largest count: a build with
\* overflow checks panics there, a build without them wraps.
IncrementedOverflows(self, host) ==
    host \in DOMAIN self /\ self[host] + 1 > MaxCount

\* Mutant of Incremented: the occupied entry is written back without the + 1.
IncrementedNoAdd(self, host) ==
    IF host \notin DOMAIN self
    THEN Insert(self, host, 1)
    ELSE Insert(self, host, self[host])

\* incremented, in the builds where `v + 1` returns (wrapping on overflow).
Incremented(self, host) ==
    IF host \notin DOMAIN self
    THEN Insert(self, host, 1)
    ELSE Insert(self, host, (self[host] + 1) % Modulus)

\* Mutant of SupersededBy: only the pass over other's hosts is made.
SupersededBySecondPassOnly(self, other) ==
    LET second_fails == \E host \in DOMAIN other : GetOr0(self, host) > other[host]
        has_smaller == \E host \in DOMAIN other : GetOr0(self, host) < other[host]
    IN  IF second_fails THEN FALSE ELSE has_smaller

\* superseded_by: two passes, one over each map's hosts; any host with
\* self_n > other_n returns false, otherwise the result is has_smaller.
SupersededBy(self, other) ==
    LET first_fails == \E host \in DOMAIN self : self[host] > GetOr0(other, host)
        second_fails == \E host \in DOMAIN other : GetOr0(self, host) > other[host]
        has_smaller ==
            \/ \E host \in DOMAIN self : self[host] < GetOr0(other, host)
            \/ \E host \in DOMAIN other : GetOr0(self, host) < other[host]
    IN  IF first_fails THEN FALSE
        ELSE IF second_fails THEN FALSE
        ELSE has_smaller

\* temporal_relation: map equality first, then the two dominance tests.
TemporalRelation(self, other) ==
    IF self = other THEN Equal
    ELSE IF SupersededBy(self, other) THEN Caused
    ELSE IF SupersededBy(other, self) THEN EffectOf
    ELSE Concurrent

\* The loop of merge_with over other.entries, `todo` being the hosts of
\* other not yet visited (keys are distinct, so the order does not matter).
RECURSIVE MergeLoop(_, _, _)
MergeLoop(entries, other, todo) ==
    IF todo = {} THEN entries
    ELSE LET host == CHOOSE h \in todo : TRUE
             other_n == other[host]
             next == IF host \notin DOMAIN entries
                     THEN Insert(entries, host, other_n)
                     ELSE IF other_n > entries[host]
                          THEN Insert(entries, host, other_n)
                          ELSE entries
         IN  MergeLoop(next, other, todo \ {host})

\* Mutant of MergeWith: other's count always overwrites self's.
MergeWithOverwrite(self, other) ==
    [h \in (DOMAIN self) \cup (DOMAIN other) |->
        IF h \in DOMAIN other THEN other[h] ELSE self[h]]

\* Mutant of MergeWith: hosts vacant in self are not inserted.
MergeWithSelfHostsOnly(self, other) ==
    [h \in DOMAIN self |->
        IF h \in DOMAIN other /\ other[h] > self[h] THEN other[h] ELSE self[h]]

\* merge_with: clone self.entries, then fold other's entries into it.
MergeWith(self, other) == MergeLoop(self, other, DOMAIN other)

\* The (host, n) pairs of the map.
Entries(self) == {<<host, self[host]>> : host \in DOMAIN self}

\* Mutant of ToVec: pairs whose count is 0 are left out.
ToVecNonZero(self) ==
    LET pairs == {e \in Entries(self) : e[2] # 0}
        n == Cardinality(pairs)
    IN  {v \in [1..n -> pairs] : \A i, j \in 1..n : i # j => v[i] # v[j]}

\* to_vec: the pairs of the map in the map's iteration order, which the
\* HashMap leaves unspecified: every order is a possible return value.
ToVec(self) ==
    LET pairs == Entries(self)
        n == Cardinality(pairs)
    IN  {v \in [1..n -> pairs] : \A i, j \in 1..n : i # j => v[i] # v[j]}

\* collect() into a HashMap: insert the pairs in order, a later pair for a
\* host overwriting an earlier one.
RECURSIVE Collect(_, _)
Collect(entries, v) ==
    IF v = <<>> THEN entries
    ELSE Collect(Insert(entries, Head(v)[1], Head(v)[2]), Tail(v))

\* from_vec
FromVec(v) == Collect(New, v)

-----------------------------------------------------------------------------
(* The API driven on two bound clocks.  a is `self`, b is `other`; ret is  *)
(* the value returned by the last call.                                    *)

Names == {"a", "b"}

NoRet == [op |-> "none", host |-> "none", clock |-> New, rel |-> "none", vec |-> <<>>]

Returned(ret0) == ret0.op \in {"incremented", "merge_with"}

Running == ret.op # "panic"

ProtoIdle == UNCHANGED <<local, known, events>>

\* let a = VectorClock::new();  or  let b = ...
NewStep(dst) ==
    /\ Running
    /\ a' = IF dst = "a" THEN New ELSE a
    /\ b' = IF dst = "b" THEN New ELSE b
    /\ ret' = [NoRet EXCEPT !.op = "new"]
    /\ ProtoIdle

\* let a = VectorClock::from_vec(v);
FromVecStep(v) ==
    /\ Running
    /\ a' = FromVec(v)
    /\ b' = b
    /\ ret' = [NoRet EXCEPT !.op = "from_vec"]
    /\ ProtoIdle

\* a.incremented(host): returns the new clock, or panics on overflow in a
\* build with overflow checks.
IncrementedStep(host) ==
    /\ Running
    /\ \/ ret' = [NoRet EXCEPT !.op = "incremented", !.host = host,
                               !.clock = Incremented(a, host)]
       \/ /\ IncrementedOverflows(a, host)
          /\ ret' = [NoRet EXCEPT !.op = "panic", !.host = host]
    /\ UNCHANGED <<a, b>>
    /\ ProtoIdle

\* a.temporal_relation(&b)
TemporalRelationStep ==
    /\ Running
    /\ ret' = [NoRet EXCEPT !.op = "temporal_relation", !.rel = TemporalRelation(a, b)]
    /\ UNCHANGED <<a, b>>
    /\ ProtoIdle

\* a.merge_with(&b)
MergeWithStep ==
    /\ Running
    /\ ret' = [NoRet EXCEPT !.op = "merge_with", !.clock = MergeWith(a, b)]
    /\ UNCHANGED <<a, b>>
    /\ ProtoIdle

\* a.to_vec()
ToVecStep ==
    /\ Running
    /\ \E v \in ToVec(a) : ret' = [NoRet EXCEPT !.op = "to_vec", !.vec = v]
    /\ UNCHANGED <<a, b>>
    /\ ProtoIdle

\* let a = <the clock just returned>;  or  let b = ...
Bind(dst) ==
    /\ Returned(ret)
    /\ a' = IF dst = "a" THEN ret.clock ELSE a
    /\ b' = IF dst = "b" THEN ret.clock ELSE b
    /\ ret' = [NoRet EXCEPT !.op = "let"]
    /\ ProtoIdle

ProtoInit ==
    /\ local = [h \in Hosts |-> New]
    /\ known = [h \in Hosts |-> {}]
    /\ events = <<>>

Init ==
    /\ a = New
    /\ b = New
    /\ ret = [NoRet EXCEPT !.op = "new"]
    /\ ProtoInit

Next ==
    \/ \E dst \in Names : NewStep(dst)
    \/ \E v \in VecInputs : FromVecStep(v)
    \/ \E host \in Hosts : IncrementedStep(host)
    \/ TemporalRelationStep
    \/ MergeWithStep
    \/ ToVecStep
    \/ \E dst \in Names : Bind(dst)

Spec == Init /\ [][Next]_vars

-----------------------------------------------------------------------------
(* The usage protocol: every host starts from new(), replaces its local    *)
(* clock by local.incremented(own host) before each event it emits and     *)
(* tags the event with the result, and on receiving an event replaces its  *)
(* local clock by local.merge_with(received).  events is the log of the    *)
(* emitted events; an event's `past` is the set of events that happened    *)
(* before it, kept apart from the clocks.                                  *)

ApiIdle == UNCHANGED <<a, b, ret>>

\* Host h emits an event.  The number of events is capped, and a count is
\* never incremented past the largest value.
Emit(h) ==
    /\ Len(events) < MaxEvents
    /\ ~IncrementedOverflows(local[h], h)
    /\ local' = [local EXCEPT ![h] = Incremented(local[h], h)]
    /\ events' = Append(events, [host |-> h, clock |-> local'[h], past |-> known[h]])
    /\ known' = [known EXCEPT ![h] = known[h] \cup {Len(events) + 1}]
    /\ ApiIdle

\* Host h receives the i-th event, emitted by another host.
Receive(h, i) ==
    /\ i \in 1..Len(events)
    /\ events[i].host # h
    /\ local' = [local EXCEPT ![h] = MergeWith(local[h], events[i].clock)]
    /\ known' = [known EXCEPT ![h] = known[h] \cup events[i].past \cup {i}]
    /\ UNCHANGED events
    /\ ApiIdle

NextProto ==
    \/ \E h \in Hosts : Emit(h)
    \/ \E h \in Hosts, i \in 1..MaxEvents : Receive(h, i)

SpecProto == Init /\ [][NextProto]_vars

-----------------------------------------------------------------------------
(* Reference notions the properties are stated with *)

\* The effective count of a host: an absent host counts as 0.
Eff(c, h) == IF h \in DOMAIN c THEN c[h] ELSE 0

Max2(m, n) == IF m >= n THEN m ELSE n

\* The classification over effective counts.
RefRelation(x, y) ==
    IF \A h \in Hosts : Eff(x, h) = Eff(y, h) THEN Equal
    ELSE IF \A h \in Hosts : Eff(x, h) <= Eff(y, h) THEN Caused
    ELSE IF \A h \in Hosts : Eff(y, h) <= Eff(x, h) THEN EffectOf
    ELSE Concurrent

\* Every clock over the hosts: any set of hosts present, any count each.
Clocks == UNION {[D -> 0..MaxCount] : D \in SUBSET Hosts}

\* All orderings of a sequence.
Orderings(v) ==
    LET n == Len(v)
    IN  {[i \in 1..n |-> v[p[i]]] :
            p \in {q \in [1..n -> 1..n] : \A i, j \in 1..n : i # j => q[i] # q[j]}}

EventIds == 1..Len(events)

-----------------------------------------------------------------------------
(* Properties *)

\* C1: a.temporal_relation(b) agrees with the reference classification over
\* effective counts (absent host = 0), for clocks however they were built;
\* in particular a clock with a 0-valued entry is Equal to the clock that
\* omits the host.
C1_RelationIsReference ==
    ret.op = "temporal_relation" => ret.rel = RefRelation(a, b)

\* C2: with M = a.merge_with(b), M.temporal_relation(x) is EffectOf or Equal
\* and x.temporal_relation(M) is Caused or Equal for both inputs x; M is never
\* Caused by or Concurrent with an input.
C2_MergeDominates ==
    ret.op = "merge_with" =>
        \A x \in {a, b} :
            /\ TemporalRelation(ret.clock, x) \in {EffectOf, Equal}
            /\ TemporalRelation(x, ret.clock) \in {Caused, Equal}

\* C3: swapping the arguments of temporal_relation turns Caused into EffectOf
\* and back, and keeps Equal and Concurrent.
C3_SwapConsistent ==
    ret.op = "temporal_relation" =>
        LET swapped == TemporalRelation(b, a)
        IN  /\ ret.rel \in {Equal, Caused, EffectOf, Concurrent}
            /\ (ret.rel = Caused) <=> (swapped = EffectOf)
            /\ (ret.rel = EffectOf) <=> (swapped = Caused)
            /\ (ret.rel = Equal) <=> (swapped = Equal)
            /\ (ret.rel = Concurrent) <=> (swapped = Concurrent)

\* C3 witness: a relation was computed on a pair that is ordered one way, one
\* clock holding a host the other lacks.
C3_Witness ==
    /\ ret.op = "temporal_relation"
    /\ ret.rel = Caused
    /\ DOMAIN a # DOMAIN b
    /\ a # New

\* C4: a.merge_with(b) is the pointwise maximum over effective counts, has no
\* host that appears in neither input, and lowers no host's count.
C4_MergeIsPointwiseMax ==
    ret.op = "merge_with" =>
        /\ DOMAIN ret.clock \subseteq (DOMAIN a) \cup (DOMAIN b)
        /\ \A h \in (DOMAIN a) \cup (DOMAIN b) :
              /\ h \in DOMAIN ret.clock
              /\ ret.clock[h] = Max2(Eff(a, h), Eff(b, h))
        /\ \A h \in Hosts :
              /\ Eff(ret.clock, h) >= Eff(a, h)
              /\ Eff(ret.clock, h) >= Eff(b, h)

\* C4 witness: a merge in which each input holds the larger count for some
\* host and one input lacks a host of the other.
C4_Witness ==
    /\ ret.op = "merge_with"
    /\ \E h \in DOMAIN a : h \in DOMAIN b /\ a[h] > b[h] /\ ret.clock[h] = a[h]
    /\ \E h \in DOMAIN b : h \notin DOMAIN a /\ b[h] > 0 /\ ret.clock[h] = b[h]

\* C5: merge_with is commutative, associative and idempotent under the
\* clock's ==, the third clock ranging over every clock over the hosts.
C5_MergeSemilattice ==
    ret.op = "merge_with" =>
        /\ ret.clock = MergeWith(b, a)
        /\ \A c \in Clocks :
              MergeWith(ret.clock, c) = MergeWith(a, MergeWith(b, c))
        /\ MergeWith(a, a) = a
        /\ MergeWith(ret.clock, ret.clock) = ret.clock

\* C5 witness: a merge of two clocks neither of which dominates the other,
\* one of them holding a 0-valued entry.
C5_Witness ==
    /\ ret.op = "merge_with"
    /\ \E h \in DOMAIN a : a[h] > Eff(b, h)
    /\ \E h \in DOMAIN b : b[h] > Eff(a, h)
    /\ \E h \in DOMAIN a : a[h] = 0

\* C6: a.incremented(h) never fails; the result's count for h is one greater
\* than a's effective count for h, every other host's count is unchanged;
\* also when a's count for h is the largest representable value.
C6_IncrementedAddsOne ==
    ret.op \in {"incremented", "panic"} =>
        /\ ret.op = "incremented"
        /\ Eff(ret.clock, ret.host) = Eff(a, ret.host) + 1
        /\ \A h \in Hosts \ {ret.host} : Eff(ret.clock, h) = Eff(a, h)

\* C7: a.temporal_relation(a.incremented(h)) is Caused and the reverse is
\* EffectOf, for every reachable clock a and every host h.
C7_IncrementCaused ==
    ret.op \in {"incremented", "panic"} =>
        /\ ret.op = "incremented"
        /\ TemporalRelation(a, ret.clock) = Caused
        /\ TemporalRelation(ret.clock, a) = EffectOf

\* C8: every clock reachable through the public API stores only counts >= 1,
\* and to_vec never emits a pair whose count is 0.
C8_StoredCountsPositive ==
    /\ \A c \in {a, b, ret.clock} : \A h \in DOMAIN c : c[h] >= 1
    /\ \A i \in 1..Len(ret.vec) : ret.vec[i][2] >= 1

\* C9: from_vec applied to any ordering of a.to_vec() yields a clock == a,
\* and to_vec never emits the same host twice.
C9_RoundTrip ==
    ret.op = "to_vec" =>
        /\ \A i, j \in 1..Len(ret.vec) : i # j => ret.vec[i][1] # ret.vec[j][1]
        /\ \A w \in Orderings(ret.vec) : FromVec(w) = a

\* C9 witness: to_vec returned two pairs, one of them with count 0.
C9_Witness ==
    /\ ret.op = "to_vec"
    /\ Len(ret.vec) = 2
    /\ \E i \in 1..2 : ret.vec[i][2] = 0

\* C10: under the usage protocol, for distinct emitted events e and f,
\* e.clock.temporal_relation(f.clock) is Caused iff e happened before f,
\* Concurrent iff neither happened before the other, and never Equal.
C10_ClocksCharacteriseCausality ==
    \A e, f \in EventIds :
        e # f =>
            LET rel == TemporalRelation(events[e].clock, events[f].clock)
            IN  /\ (rel = Caused) <=> (e \in events[f].past)
                /\ (rel = EffectOf) <=> (f \in events[e].past)
                /\ (rel = Concurrent) <=>
                       (e \notin events[f].past /\ f \notin events[e].past)
                /\ rel # Equal

\* C10 witness: a run with two concurrent events, and an event of one host
\* that happened before an event of another host through a delivery.
C10_Witness ==
    /\ \E e, f \in EventIds :
          /\ e # f
          /\ e \notin events[f].past
          /\ f \notin events[e].past
    /\ \E e, f \in EventIds :
          /\ events[e].host # events[f].host
          /\ e \in events[f].past
    /\ \E e, f \in EventIds :
          /\ e # f
          /\ events[e].host = events[f].host

====
